---- MODULE Spec2Model ----
(***************************************************************************)
(* Model of tools/dcs_audit_builder.py: the audit landing page builder.    *)
(* One behaviour is a sequence of invocations of main() on one file        *)
(* system.  Each invocation parses its flags, sets up logging, optionally  *)
(* backs up the output directory, generates and validates the content,     *)
(* writes the five files and optionally archives the output directory.     *)
(*                                                                         *)
(* Texts are modelled by what the validators and the writer read of them:  *)
(* the number of characters, the number of extra bytes the UTF-8 form      *)
(* needs, and which of the searched substrings they contain.  Bytes on     *)
(* disk are a text together with the encoding it was written in; SHA-256   *)
(* is modelled as collision free.                                          *)
(***************************************************************************)
EXTENDS Integers, Sequences, FiniteSets, TLC

\* ---------------------------------------------------------------------------
\* Bounds of the exploration
\* ---------------------------------------------------------------------------
\* number of invocations of main() in one behaviour
MaxRuns == 2
\* number of I/O operations that may fail in one behaviour; no invocation
\* starts once that many have failed
MaxFaults == 1

\* ---------------------------------------------------------------------------
\* BuildConfig
\* ---------------------------------------------------------------------------
min_astro_size == 5000
min_css_size == 500
required_schema_types == <<"WebPage", "Service", "FAQPage">>

\* Encodings that can represent every character of the generated texts.
Encodings == {"utf-8", "utf-16"}

\* a configuration that also requires a type the generator does not emit
more_schema_types == required_schema_types \o <<"Organization">>

BuildConfig(enc, types) ==
    [encoding |-> enc,
     page_slug |-> "digital-credibility-score-audit",
     min_astro_size |-> min_astro_size,
     min_css_size |-> min_css_size,
     required_schema_types |-> types]

Configs ==
    {BuildConfig(e, t) : e \in Encodings,
                         t \in {required_schema_types, more_schema_types}}

\* ---------------------------------------------------------------------------
\* Generated content.  A scenario names the template literals the generators
\* return: the shipped ones, or the shipped ones with one edit.
\* ---------------------------------------------------------------------------
Scenarios == {"shipped", "truncated_markup", "no_risk_grid"}

AstroChars == 19271
AstroWide == 30
CssChars == 3221
CssWide == 302
\* the markup literal cut after its first 4000 characters
TruncChars == 4000
TruncWide == 10
\* the stylesheet literal with both '.risk-grid' selectors renamed
EditedCssChars == 3207

\* variant of generate_astro_content: the template ends after 4000 characters
generate_astro_content_truncated(scn) ==
    [id |-> <<"astro", "truncated">>, chars |-> TruncChars, wide |-> TruncWide,
     contains |-> {"<main>", "BaseLayout", "hero-section", "audit-form"},
     lower_contains |-> {}]

generate_astro_content(scn) ==
    IF scn = "truncated_markup"
    THEN [id |-> <<"astro", "truncated">>, chars |-> TruncChars, wide |-> TruncWide,
          contains |-> {"<main>", "BaseLayout", "hero-section", "audit-form"},
          lower_contains |-> {}]
    ELSE [id |-> <<"astro", "shipped">>, chars |-> AstroChars, wide |-> AstroWide,
          contains |-> {"<main>", "</main>", "BaseLayout", "hero-section",
                        "audit-form", "label for=\""},
          lower_contains |-> {"label for="}]

generate_schema(scn) ==
    [context |-> "https://schema.org",
     graph |-> <<"WebPage", "Service", "FAQPage">>]

generate_css(scn) ==
    IF scn = "no_risk_grid"
    THEN [id |-> <<"css", "edited">>, chars |-> EditedCssChars, wide |-> CssWide,
          contains |-> {".audit-summary-grid", ".faq-list", ".audit-form"},
          lower_contains |-> {}]
    ELSE [id |-> <<"css", "shipped">>, chars |-> CssChars, wide |-> CssWide,
          contains |-> {".audit-summary-grid", ".risk-grid", ".faq-list",
                        ".audit-form"},
          lower_contains |-> {}]

\* the README embeds the wall-clock time of its generation
generate_readme(now) ==
    [id |-> <<"readme", now>>]

\* json.dumps(schema_content, indent=2, ensure_ascii=False)
schema_dumps(schema) ==
    [id |-> <<"schema", schema>>]

\* json.dumps(manifest_dict, indent=2)
manifest_dumps(m) ==
    [id |-> <<"manifest", m>>]

\* ---------------------------------------------------------------------------
\* str.encode, len(bytes), hashlib.sha256
\* ---------------------------------------------------------------------------
\* content.encode(encoding): the bytes are determined by the text and the
\* encoding; two encodings of one text are different byte strings.
Encode(text, enc) == [text |-> text.id, enc |-> enc]

\* len(content.encode(encoding)); UTF-16 writes a 2-byte mark and 2 bytes
\* per character (every character of the templates is in the basic plane).
ByteLen(text, enc) ==
    IF enc = "utf-8" THEN text.chars + text.wide ELSE 2 * text.chars + 2

SHA256(bytes) == <<"sha256", bytes>>

compute_checksum(content, encoding) == SHA256(Encode(content, encoding))

\* ---------------------------------------------------------------------------
\* Validators.  A report is [passed, checks]; passed starts TRUE and every
\* failing branch clears it, checks lists one outcome per check in order.
\* ---------------------------------------------------------------------------
Check(status, what, arg) == [status |-> status, what |-> what, arg |-> arg]

\* "PASS: Contains 'x'" or "FAIL: Missing 'x'" for each required substring
ContainsChecks(content, required) ==
    [i \in 1..Len(required) |->
        IF required[i] \in content.contains
        THEN Check("PASS", "Contains", required[i])
        ELSE Check("FAIL", "Missing", required[i])]

AstroRequired == <<"<main>", "</main>", "BaseLayout", "hero-section", "audit-form">>
CssRequired == <<".audit-summary-grid", ".risk-grid", ".faq-list", ".audit-form">>

validate_astro(content, config) ==
    LET size == ByteLen(content, config.encoding)
        small == size < config.min_astro_size
        labels == \/ "label for=" \in content.lower_contains
                  \/ "label for=\"" \in content.contains
    IN [passed |-> /\ ~small
                   /\ \A i \in 1..Len(AstroRequired) :
                          AstroRequired[i] \in content.contains
                   /\ labels,
        checks |-> <<IF small THEN Check("FAIL", "Size", size)
                              ELSE Check("PASS", "Size", size)>>
                   \o ContainsChecks(content, AstroRequired)
                   \o <<IF labels THEN Check("PASS", "Form labels", "present")
                                  ELSE Check("FAIL", "Form labels", "missing")>>]

\* variant of validate_schema: the i-th required type is looked for in the
\* i-th graph entry only
validate_schema_positional(schema, config) ==
    LET valid == schema.context = "https://schema.org"
        graph == schema.graph
        req == config.required_schema_types
        at(i) == i <= Len(graph) /\ graph[i] = req[i]
    IN [passed |-> /\ valid
                   /\ \A i \in 1..Len(req) : at(i),
        checks |-> <<IF valid THEN Check("PASS", "@context", "valid")
                              ELSE Check("FAIL", "@context", "invalid")>>
                   \o [i \in 1..Len(req) |->
                          IF at(i)
                          THEN Check("PASS", "Contains", req[i])
                          ELSE Check("FAIL", "Missing", req[i])]]

validate_schema(schema, config) ==
    LET valid == schema.context = "https://schema.org"
        graph == schema.graph
        found_types == {graph[i] : i \in 1..Len(graph)}
        req == config.required_schema_types
    IN [passed |-> /\ valid
                   /\ \A i \in 1..Len(req) : req[i] \in found_types,
        checks |-> <<IF valid THEN Check("PASS", "@context", "valid")
                              ELSE Check("FAIL", "@context", "invalid")>>
                   \o [i \in 1..Len(req) |->
                          IF req[i] \in found_types
                          THEN Check("PASS", "Contains", req[i])
                          ELSE Check("FAIL", "Missing", req[i])]]

\* variant of validate_css: a size failure is recorded but passed stays set
validate_css_size_unflagged(content, config) ==
    LET size == ByteLen(content, config.encoding)
        small == size < config.min_css_size
    IN [passed |-> \A i \in 1..Len(CssRequired) :
                          CssRequired[i] \in content.contains,
        checks |-> <<IF small THEN Check("FAIL", "Size", size)
                              ELSE Check("PASS", "Size", size)>>
                   \o ContainsChecks(content, CssRequired)]

validate_css(content, config) ==
    LET size == ByteLen(content, config.encoding)
        small == size < config.min_css_size
    IN [passed |-> /\ ~small
                   /\ \A i \in 1..Len(CssRequired) :
                          CssRequired[i] \in content.contains,
        checks |-> <<IF small THEN Check("FAIL", "Size", size)
                              ELSE Check("PASS", "Size", size)>>
                   \o ContainsChecks(content, CssRequired)]

\* variant of all_passed: the stylesheet report is left out of the list
all_passed_skip_css(validation) ==
    /\ validation["astro"].passed
    /\ validation["schema"].passed

\* all([astro["passed"], schema["passed"], css["passed"]])
all_passed(validation) ==
    /\ validation["astro"].passed
    /\ validation["schema"].passed
    /\ validation["css"].passed

\* ---------------------------------------------------------------------------
\* File system.  A path is <<directory, name>>; directory "out" is the output
\* directory, "parent" its parent, "elsewhere" any other place.  With the
\* output path "." the output directory is the working directory itself.
\* ---------------------------------------------------------------------------
Outputs == {"named", "dot"}

Artifacts == <<"astro", "schema", "css", "readme">>
ArtifactNames == {"astro", "schema", "css", "readme"}

\* src_pages / f"{page_slug}.astro", public / ..., styles / ..., docs / ...
ArtifactPath(name, cfg) ==
    CASE name = "astro" -> <<"out", "src/pages/" \o cfg.page_slug \o ".astro">>
      [] name = "schema" -> <<"out", "public/schema-audit.json">>
      [] name = "css" -> <<"out", "styles/audit-styles.css">>
      [] name = "readme" -> <<"out", "docs/readme.md">>

ManifestPath == <<"out", "build-manifest.json">>
OldPath == <<"out", "old.txt">>
LogPath == <<"elsewhere", "build.log">>

\* args.output.parent / f"{args.output.name}.zip"
ZipPath(out) ==
    IF out = "dot" THEN <<"out", ".zip">> ELSE <<"parent", "audit-package.zip">>

Paths(cfg) ==
    {ArtifactPath(n, cfg) : n \in ArtifactNames}
        \cup {ManifestPath, OldPath, LogPath, ZipPath("dot"), ZipPath("named")}

\* the files below the output directory
OutPaths(cfg) == {p \in Paths(cfg) : p[1] = "out"}

Absent == [enc |-> "none", text |-> <<"absent">>]
EmptyBytes == [enc |-> "none", text |-> <<"empty">>]
OldBytes == [enc |-> "none", text |-> <<"old">>]
LogBytes == [enc |-> "none", text |-> <<"log">>]
ArchivePrefix == [enc |-> "none", text |-> <<"zip-prefix">>]

\* ---------------------------------------------------------------------------
\* Logging.  The console handler emits records of level INFO and above, and
\* DEBUG records too with --verbose; the file handler of --log-file emits
\* every record.  A record no handler emits appears nowhere.
\* ---------------------------------------------------------------------------
HandlerAccepts(level, a) ==
    level # "DEBUG" \/ a.verbose \/ a.log_file = "ok"

Rec(level, text) == [level |-> level, text |-> text]

\* the records of lines that reach a handler, appended to the log
Emit(lg, a, lines) ==
    lg \o SelectSeq(lines, LAMBDA r : HandlerAccepts(r.level, a))

\* the text of a check outcome: "PASS: Size 19301", "FAIL: Missing .risk-grid"
Render(c) == c.status \o ": " \o c.what \o " " \o ToString(c.arg)

\* for check in validation["checks"]: logger.debug(f"  <Label>: {check}")
CheckLines(label, report) ==
    [i \in 1..Len(report.checks) |->
        Rec("DEBUG", "  " \o label \o ": " \o Render(report.checks[i]))]

\* ---------------------------------------------------------------------------
\* State
\* ---------------------------------------------------------------------------
VARIABLES
    config,      \* the BuildConfig of every run
    scenario,    \* the template literals of every run
    output,      \* args.output of every run: a named directory or "."
    fs,          \* path -> bytes of the file, or Absent
    out_exists,  \* the output directory exists
    backups,     \* the backup directories made so far, oldest first
    clock,       \* wall clock
    run,         \* number of invocations started
    faults,      \* number of I/O operations that have failed
    verdicts,    \* dry_run -> validation verdicts of the runs with that flag
    args,        \* flags of the current run
    pc,          \* position of the current run in main
    exc,         \* exception raised by the current run
    exit_code,   \* exit status of the current run, -1 while it runs
    content,     \* generated texts of the current run
    manifest,    \* the BuildManifest of the current run
    trace,       \* stages entered by the current run, in order
    written,     \* files whose safe_write has returned in the current run
    touched,     \* paths created or modified by the current run
    snap,        \* fs, out_exists and number of backups at the run's start
    log,         \* records of the current run that a log handler has emitted
    builds,      \* the full builds completed so far, oldest first
    zip_handle   \* the archive writer of the current run: none, open, closed

vars == <<config, scenario, output, fs, out_exists, backups, clock, run,
          faults, verdicts, args, pc, exc, exit_code, content, manifest,
          trace, written, touched, snap, log, builds, zip_handle>>

inputs == <<config, scenario, output>>

NoArgs == [zip |-> FALSE, backup |-> FALSE, dry_run |-> FALSE, log_file |-> "none",
           verbose |-> FALSE]
NoContent == [astro |-> <<>>, schema |-> <<>>, css |-> <<>>, readme |-> <<>>]
NoManifest == [generated_at |-> 0, artifacts |-> <<>>, checksums |-> <<>>,
               validation |-> <<>>]

\* The flags argparse accepts.  --log-file names no file, a file that can be
\* opened, or a file in a directory that does not exist.  (--backup is left
\* out when the output directory is the working directory.)
ArgSets(out) ==
    {a \in [zip : BOOLEAN, backup : BOOLEAN, dry_run : BOOLEAN,
            log_file : {"none", "ok", "bad"}, verbose : BOOLEAN] :
        out = "dot" => ~a.backup}

Init ==
    /\ config \in Configs
    /\ scenario \in Scenarios
    /\ output \in Outputs
    /\ \E old \in {Absent, OldBytes} :
           fs = [p \in Paths(config) |-> IF p = OldPath THEN old ELSE Absent]
    /\ out_exists \in BOOLEAN
    /\ (output = "dot" \/ fs[OldPath] # Absent) => out_exists
    /\ backups = <<>>
    /\ clock = 1
    /\ run = 0
    /\ faults = 0
    /\ verdicts = [d \in BOOLEAN |-> {}]
    /\ args = NoArgs
    /\ pc = "idle"
    /\ exc = "none"
    /\ exit_code = -1
    /\ content = NoContent
    /\ manifest = NoManifest
    /\ trace = <<>>
    /\ written = {}
    /\ touched = {}
    /\ snap = [fs |-> fs, out_exists |-> out_exists, backups |-> 0]
    /\ log = <<>>
    /\ builds = <<>>
    /\ zip_handle = "none"

\* ---------------------------------------------------------------------------
\* main: argument parsing, logging, backup
\* ---------------------------------------------------------------------------
\* parser.parse_args(): a new invocation starts (while the bounds on the
\* number of invocations and of failed operations allow one)
Start ==
    /\ pc \in {"idle", "exited"}
    /\ run < MaxRuns
    /\ faults < MaxFaults
    /\ run' = run + 1
    /\ \E a \in ArgSets(output) : args' = a
    /\ pc' = "setup_logging"
    /\ exc' = "none"
    /\ exit_code' = -1
    /\ content' = NoContent
    /\ manifest' = NoManifest
    /\ trace' = <<>>
    /\ written' = {}
    /\ touched' = {}
    /\ snap' = [fs |-> fs, out_exists |-> out_exists, backups |-> Len(backups)]
    /\ log' = <<>>
    /\ zip_handle' = "none"
    /\ UNCHANGED <<inputs, fs, out_exists, backups, clock, faults, verdicts,
                   builds>>

\* setup_logging(args.log_file), called before the try block of main:
\* logging.FileHandler opens the log file and raises if it cannot.
SetupLogging ==
    /\ pc = "setup_logging"
    /\ \/ /\ args.log_file = "none"
          /\ pc' = "backup"
          /\ log' = Emit(log, args, <<Rec("INFO", "NexTara DCS Audit Builder")>>)
          /\ UNCHANGED <<fs, touched, exc>>
       \/ /\ args.log_file = "ok"
          /\ fs' = [fs EXCEPT ![LogPath] = LogBytes]
          /\ touched' = touched \cup {LogPath}
          /\ pc' = "backup"
          /\ log' = Emit(log, args, <<Rec("INFO", "NexTara DCS Audit Builder")>>)
          /\ UNCHANGED exc
       \/ /\ args.log_file = "bad"
          /\ exc' = "OSError"
          /\ pc' = "uncaught"
          /\ UNCHANGED <<fs, touched, log>>
    /\ UNCHANGED <<inputs, out_exists, backups, clock, run, faults, verdicts,
                   args, exit_code, content, manifest, trace, written, snap,
                   builds, zip_handle>>

\* variant of TreeCopy: subdirectories are not copied
TreeCopy_shallow ==
    [p \in OutPaths(config) |-> IF p \in {OldPath, ManifestPath, ZipPath("dot")}
                                THEN fs[p] ELSE Absent]

\* shutil.copytree(path, backup): the copy holds every file of the tree
TreeCopy == [p \in OutPaths(config) |-> fs[p]]

\* if args.backup: create_backup(args.output, logger)
Backup ==
    /\ pc = "backup"
    /\ \/ /\ ~(args.backup /\ out_exists)
          /\ pc' = "generate"
          /\ UNCHANGED <<backups, exc, faults, log>>
       \/ /\ args.backup /\ out_exists
          /\ backups' = Append(backups, TreeCopy)
          /\ log' = Emit(log, args, <<Rec("INFO", "Created backup")>>)
          /\ pc' = "generate"
          /\ UNCHANGED <<exc, faults>>
       \/ /\ args.backup /\ out_exists
          /\ faults < MaxFaults
          /\ faults' = faults + 1
          /\ exc' = "OSError"
          /\ pc' = "raised"
          /\ UNCHANGED <<backups, log>>
    /\ UNCHANGED <<inputs, fs, out_exists, clock, run, verdicts, args,
                   exit_code, content, manifest, trace, written, touched, snap,
                   builds, zip_handle>>

\* ---------------------------------------------------------------------------
\* build_package
\* ---------------------------------------------------------------------------
\* manifest = BuildManifest(...); "Generating content..."
Generate ==
    /\ pc = "generate"
    /\ manifest' = [generated_at |-> clock, artifacts |-> <<>>,
                    checksums |-> <<>>, validation |-> <<>>]
    /\ content' = [astro |-> generate_astro_content(scenario),
                   schema |-> generate_schema(scenario),
                   css |-> generate_css(scenario),
                   readme |-> generate_readme(clock + 1)]
    /\ clock' = clock + 2
    /\ trace' = Append(trace, "GENERATE")
    /\ log' = Emit(log, args, <<Rec("INFO", "Generating content...")>>)
    /\ pc' = "validate"
    /\ UNCHANGED <<inputs, fs, out_exists, backups, run, faults, verdicts,
                   args, exc, exit_code, written, touched, snap, builds,
                   zip_handle>>

\* "Validating content...": the three validators run one after the other
\* and each report is stored in manifest.validation
Validate ==
    /\ pc = "validate"
    /\ manifest' =
         [manifest EXCEPT !.validation =
             [n \in {"astro", "schema", "css"} |->
                 CASE n = "astro" -> validate_astro(content.astro, config)
                   [] n = "schema" -> validate_schema(content.schema, config)
                   [] n = "css" -> validate_css(content.css, config)]]
    /\ trace' = Append(trace, "VALIDATE")
    /\ log' = Emit(log, args,
                   <<Rec("INFO", "Validating content...")>>
                   \o CheckLines("Astro", validate_astro(content.astro, config))
                   \o CheckLines("Schema", validate_schema(content.schema, config))
                   \o CheckLines("CSS", validate_css(content.css, config)))
    /\ pc' = "gate"
    /\ UNCHANGED <<inputs, fs, out_exists, backups, clock, run, faults,
                   verdicts, args, exc, exit_code, content, written, touched,
                   snap, builds, zip_handle>>

\* variant of GateOutcome: the dry-run return comes before the validation gate
GateOutcome_dry_first(validation, dry_run) ==
    IF dry_run THEN "return"
    ELSE IF ~all_passed(validation) THEN "abort"
    ELSE "write"

\* variant of GateOutcome: the dry-run return is missing
GateOutcome_no_dry_return(validation, dry_run) ==
    IF ~all_passed(validation) THEN "abort" ELSE "write"

\* if not all_passed: raise ValidationError; if dry_run: return manifest
GateOutcome(validation, dry_run) ==
    IF ~all_passed(validation) THEN "abort"
    ELSE IF dry_run THEN "return"
    ELSE "write"

Gate ==
    /\ pc = "gate"
    /\ LET outcome == GateOutcome(manifest.validation, args.dry_run)
       IN /\ verdicts' = [verdicts EXCEPT ![args.dry_run] =
                             @ \cup {[raised |-> outcome = "abort",
                                      validation |-> manifest.validation]}]
          /\ \/ /\ outcome = "abort"
                /\ exc' = "ValidationError"
                /\ trace' = Append(trace, "ABORT")
                /\ log' = Emit(log, args,
                       <<Rec("ERROR", "Validation failed - aborting build")>>)
                /\ pc' = "raised"
             \/ /\ outcome = "return"
                /\ log' = Emit(log, args,
                       <<Rec("INFO", "All validations passed"),
                         Rec("INFO", "DRY RUN - skipping file writes")>>)
                /\ pc' = "package"
                /\ UNCHANGED <<exc, trace>>
             \/ /\ outcome = "write"
                /\ log' = Emit(log, args,
                       <<Rec("INFO", "All validations passed"),
                         Rec("INFO", "Writing files...")>>)
                /\ pc' = "write_astro"
                /\ UNCHANGED <<exc, trace>>
    /\ UNCHANGED <<inputs, fs, out_exists, backups, clock, run, faults, args,
                   exit_code, content, manifest, written, touched, snap,
                   builds, zip_handle>>

\* the text written for an artifact
ArtifactText(name) ==
    IF name = "schema" THEN schema_dumps(content.schema) ELSE content[name]

\* manifest.checksums[name] = compute_checksum(text): the encoding argument
\* is left to its default
RecordedChecksum(text, cfg) == compute_checksum(text, "utf-8")

WritePc(name) == "write_" \o name

\* variant of AfterWrite: the assignment to manifest.artifacts is missing
AfterWrite_no_path(name) == "sum_" \o name

\* after safe_write returns, the path is recorded, then the checksum
AfterWrite(name) == "path_" \o name

\* variant of NextWritePc: the manifest file is not written
NextWritePc_no_manifest(name) ==
    CASE name = "astro" -> "write_schema"
      [] name = "schema" -> "write_css"
      [] name = "css" -> "write_readme"
      [] name = "readme" -> "package"

\* variant of NextWritePc: the README is not written
NextWritePc_no_readme(name) ==
    CASE name = "astro" -> "write_schema"
      [] name = "schema" -> "write_css"
      [] name = "css" -> "write_manifest"
      [] name = "readme" -> "write_manifest"

NextWritePc(name) ==
    CASE name = "astro" -> "write_schema"
      [] name = "schema" -> "write_css"
      [] name = "css" -> "write_readme"
      [] name = "readme" -> "write_manifest"

PathStr(path) == path[1] \o "/" \o path[2]

\* variant of safe_write: the unrelated file of the tree is removed as well
safe_write_clean(files, path, text, encoding) ==
    [files EXCEPT ![path] = Encode(text, encoding), ![OldPath] = Absent]

\* safe_write(path, content, encoding, logger) returns: parent directories
\* exist and the file holds the encoded content
safe_write(files, path, text, encoding) ==
    [files EXCEPT ![path] = Encode(text, encoding)]

\* safe_write raises PermissionError or OSError (logged and re-raised): the
\* file is untouched, or was created and left empty
SafeWriteFails(path) ==
    /\ faults < MaxFaults
    /\ faults' = faults + 1
    /\ exc' = "OSError"
    /\ pc' = "raised"
    /\ log' = Emit(log, args, <<Rec("ERROR", "OS error writing " \o PathStr(path))>>)
    /\ \/ UNCHANGED <<fs, out_exists, touched>>
       \/ /\ fs' = [fs EXCEPT ![path] = EmptyBytes]
          /\ out_exists' = TRUE
          /\ touched' = touched \cup {path}

\* safe_write(<name>_path, <name>_content, config.encoding, logger)
WriteArtifact(name) ==
    /\ pc = WritePc(name)
    /\ trace' = IF name = "astro" THEN Append(trace, "WRITE") ELSE trace
    /\ LET path == ArtifactPath(name, config)
           text == ArtifactText(name)
       IN \/ /\ fs' = safe_write(fs, path, text, config.encoding)
             /\ out_exists' = TRUE
             /\ touched' = touched \cup {path}
             /\ written' = written \cup {name}
             /\ log' = Emit(log, args, <<Rec("INFO", "Wrote " \o PathStr(path))>>)
             /\ pc' = AfterWrite(name)
             /\ UNCHANGED <<exc, faults>>
          \/ /\ SafeWriteFails(path)
             /\ UNCHANGED written
    /\ UNCHANGED <<inputs, backups, clock, run, verdicts, args, exit_code,
                   content, manifest, snap, builds, zip_handle>>

\* manifest.artifacts[name] = str(<name>_path)
RecordPath(name) ==
    /\ pc = "path_" \o name
    /\ manifest' = [manifest EXCEPT
                       !.artifacts = (name :> ArtifactPath(name, config)) @@ @]
    /\ pc' = "sum_" \o name
    /\ UNCHANGED <<inputs, fs, out_exists, backups, clock, run, faults,
                   verdicts, args, exc, exit_code, content, trace, written,
                   touched, snap, log, builds, zip_handle>>

\* manifest.checksums[name] = compute_checksum(<name>_content)
RecordChecksum(name) ==
    /\ pc = "sum_" \o name
    /\ manifest' = [manifest EXCEPT
                       !.checksums =
                           (name :> RecordedChecksum(ArtifactText(name), config)) @@ @]
    /\ pc' = NextWritePc(name)
    /\ UNCHANGED <<inputs, fs, out_exists, backups, clock, run, faults,
                   verdicts, args, exc, exit_code, content, trace, written,
                   touched, snap, log, builds, zip_handle>>

\* what a completed build left on disk, and whether its directory was fresh
BuildRecord(files) ==
    [fresh |-> \A p \in OutPaths(config) : snap.fs[p] = Absent,
     files |-> [n \in ArtifactNames |-> files[ArtifactPath(n, config)]],
     manifest |-> manifest]

\* manifest_str = json.dumps(manifest_dict, indent=2); safe_write(manifest_path, ...);
\* return manifest
WriteManifest ==
    /\ pc = "write_manifest"
    /\ \/ /\ fs' = safe_write(fs, ManifestPath, manifest_dumps(manifest),
                              config.encoding)
          /\ out_exists' = TRUE
          /\ touched' = touched \cup {ManifestPath}
          /\ written' = written \cup {"manifest"}
          /\ log' = Emit(log, args, <<Rec("INFO", "Wrote " \o PathStr(ManifestPath))>>)
          /\ builds' = Append(builds, BuildRecord(fs'))
          /\ pc' = "package"
          /\ UNCHANGED <<exc, faults>>
       \/ /\ SafeWriteFails(ManifestPath)
          /\ UNCHANGED <<written, builds>>
    /\ UNCHANGED <<inputs, backups, clock, run, verdicts, args, exit_code,
                   content, manifest, trace, snap, zip_handle>>

\* ---------------------------------------------------------------------------
\* create_zip
\* ---------------------------------------------------------------------------
\* the files os.walk(source_dir) meets
TreeFiles(files, cfg) == {p \in OutPaths(cfg) : files[p] # Absent}

RECURSIVE Walk(_)
\* for root, _, files in os.walk(source_dir): for f in files
Walk(S) ==
    IF S = {} THEN <<>>
    ELSE LET p == CHOOSE q \in S : TRUE IN <<p>> \o Walk(S \ {p})

\* full_path.relative_to(source_dir.parent), as path components
ArcName(p, out) ==
    IF out = "dot" THEN <<p[2]>> ELSE <<"audit-package", p[2]>>

\* zf.write(full_path, arcname=arc_name) for every file of the walk.  The
\* archive file exists from the moment zipfile.ZipFile opens it; if the walk
\* meets it, what is read of it (selfdata) is the part written so far.
ZipEntries(files, cfg, out, selfdata) ==
    LET opened == [files EXCEPT ![ZipPath(out)] = EmptyBytes]
        walk == Walk(TreeFiles(opened, cfg))
    IN [i \in 1..Len(walk) |->
           [name |-> ArcName(walk[i], out),
            data |-> IF walk[i] = ZipPath(out) THEN selfdata
                     ELSE opened[walk[i]]]]

Archive(entries) == [enc |-> "zip", text |-> <<"zip", entries>>]

\* logger.debug(f"  Added: {arc_name}") for each entry
AddedLines(entries) ==
    [i \in 1..Len(entries) |->
        Rec("DEBUG", "  Added: " \o entries[i].name[Len(entries[i].name)])]

\* variant of PackageWanted: the dry-run test is missing
PackageWanted_zip_only(a) == a.zip

\* if args.zip and not args.dry_run
PackageWanted(a) == a.zip /\ ~a.dry_run

\* variant of HandleAfterError: the archive is opened without a with block
HandleAfterError_leak == "open"

\* an exception inside the with block leaves it through ZipFile.__exit__
HandleAfterError == "closed"

\* if args.zip and not args.dry_run: create_zip(...) up to the opening of
\* the archive by zipfile.ZipFile(output_path, "w", ...)
Package ==
    /\ pc = "package"
    /\ \/ /\ ~PackageWanted(args)
          /\ pc' = "summary"
          /\ UNCHANGED <<fs, touched, trace, exc, faults, log, zip_handle>>
       \/ /\ PackageWanted(args)
          /\ trace' = Append(trace, "PACKAGE")
          /\ log' = Emit(log, args, <<Rec("INFO", "Creating ZIP archive")>>)
          /\ \/ /\ fs' = [fs EXCEPT ![ZipPath(output)] = EmptyBytes]
                /\ touched' = touched \cup {ZipPath(output)}
                /\ zip_handle' = "open"
                /\ pc' = "zip_walk"
                /\ UNCHANGED <<exc, faults>>
             \/ /\ faults < MaxFaults
                /\ faults' = faults + 1
                /\ exc' = "OSError"
                /\ pc' = "raised"
                /\ UNCHANGED <<fs, touched, zip_handle>>
    /\ UNCHANGED <<inputs, out_exists, backups, clock, run, verdicts, args,
                   exit_code, content, manifest, written, snap, builds>>

\* the body of the with block of create_zip and what follows it: every file
\* of the walk is added and the archive is closed, or adding an entry raises
\* and the archive is closed with the entries added before
ZipWalk ==
    /\ pc = "zip_walk"
    /\ \E selfdata \in {EmptyBytes, ArchivePrefix} :
         LET entries == ZipEntries(fs, config, output, selfdata)
         IN \/ /\ fs' = [fs EXCEPT ![ZipPath(output)] = Archive(entries)]
               /\ zip_handle' = "closed"
               /\ log' = Emit(log, args,
                              AddedLines(entries) \o <<Rec("INFO", "ZIP created")>>)
               /\ pc' = "summary"
               /\ UNCHANGED <<exc, faults>>
            \/ /\ faults < MaxFaults
               /\ faults' = faults + 1
               /\ exc' = "OSError"
               /\ pc' = "raised"
               /\ zip_handle' = HandleAfterError
               /\ \E k \in 0..(Len(entries) - 1) :
                    /\ fs' = [fs EXCEPT ![ZipPath(output)] =
                                 Archive(SubSeq(entries, 1, k))]
                    /\ log' = Emit(log, args, AddedLines(SubSeq(entries, 1, k)))
    /\ UNCHANGED <<inputs, out_exists, backups, clock, run, verdicts, args,
                   exit_code, content, manifest, trace, written, touched, snap,
                   builds>>

\* ---------------------------------------------------------------------------
\* main: the ways a run ends
\* ---------------------------------------------------------------------------
\* "BUILD COMPLETE"; return 0
Summary ==
    /\ pc = "summary"
    /\ exit_code' = 0
    /\ log' = Emit(log, args, <<Rec("INFO", "BUILD COMPLETE")>>)
    /\ pc' = "exited"
    /\ UNCHANGED <<inputs, fs, out_exists, backups, clock, run, faults,
                   verdicts, args, exc, content, manifest, trace, written,
                   touched, snap, builds, zip_handle>>

\* except ValidationError: return 1
ExceptValidationError ==
    /\ pc = "raised"
    /\ exc = "ValidationError"
    /\ exit_code' = 1
    /\ log' = Emit(log, args, <<Rec("ERROR", "Validation failed: Content validation failed")>>)
    /\ pc' = "exited"
    /\ UNCHANGED <<inputs, fs, out_exists, backups, clock, run, faults,
                   verdicts, args, exc, content, manifest, trace, written,
                   touched, snap, builds, zip_handle>>

\* variant of OtherExitCode: the generic handler returns the validation code
OtherExitCode_one == 1

\* except Exception: return 2
OtherExitCode == 2

ExceptException ==
    /\ pc = "raised"
    /\ exc # "ValidationError"
    /\ exit_code' = OtherExitCode
    /\ log' = Emit(log, args, <<Rec("ERROR", "Build failed")>>)
    /\ pc' = "exited"
    /\ UNCHANGED <<inputs, fs, out_exists, backups, clock, run, faults,
                   verdicts, args, exc, content, manifest, trace, written,
                   touched, snap, builds, zip_handle>>

\* an exception raised outside the try block leaves main; the interpreter
\* prints the traceback and sys.exit is never reached: exit status 1
Uncaught ==
    /\ pc = "uncaught"
    /\ exit_code' = 1
    /\ pc' = "exited"
    /\ UNCHANGED <<inputs, fs, out_exists, backups, clock, run, faults,
                   verdicts, args, exc, content, manifest, trace, written,
                   touched, snap, log, builds, zip_handle>>

\* After a completed build the operator removes the output directory, so
\* that the next build starts in a fresh one.
RemoveOutput ==
    /\ pc = "exited"
    /\ exit_code = 0
    /\ "manifest" \in written
    /\ run < MaxRuns
    /\ output = "named"
    /\ out_exists
    /\ fs' = [p \in Paths(config) |-> IF p \in OutPaths(config) THEN Absent ELSE fs[p]]
    /\ out_exists' = FALSE
    /\ pc' = "idle"
    /\ args' = NoArgs
    /\ exc' = "none"
    /\ exit_code' = -1
    /\ content' = NoContent
    /\ manifest' = NoManifest
    /\ trace' = <<>>
    /\ written' = {}
    /\ touched' = {}
    /\ log' = <<>>
    /\ zip_handle' = "none"
    /\ snap' = [fs |-> fs', out_exists |-> FALSE, backups |-> Len(backups)]
    /\ UNCHANGED <<inputs, backups, clock, run, faults, verdicts, builds>>

Next ==
    \/ Start
    \/ SetupLogging
    \/ Backup
    \/ Generate
    \/ Validate
    \/ Gate
    \/ \E name \in ArtifactNames : WriteArtifact(name)
    \/ \E name \in ArtifactNames : RecordPath(name)
    \/ \E name \in ArtifactNames : RecordChecksum(name)
    \/ WriteManifest
    \/ Package
    \/ ZipWalk
    \/ Summary
    \/ ExceptValidationError
    \/ ExceptException
    \/ Uncaught
    \/ RemoveOutput

Spec == Init /\ [][Next]_vars

\* ---------------------------------------------------------------------------
\* The validators on arbitrary content: build_package from its validation
\* step on, for any BuildConfig and any text or schema document in place of
\* one of the generated ones.
\* ---------------------------------------------------------------------------
\* longest @graph drawn
MaxGraphLen == 4
\* a size threshold above the size of every template
LargeMinSize == 40000

ConfigsV ==
    {[BuildConfig(e, t) EXCEPT !.min_astro_size = ma, !.min_css_size = mc] :
        e \in Encodings, t \in {required_schema_types, more_schema_types},
        ma \in {min_astro_size, LargeMinSize},
        mc \in {min_css_size, LargeMinSize}}

\* markup texts: short or long, with any of the searched substrings, and a
\* form label in lower case, in upper case only, or none
AstroTexts ==
    {generate_astro_content("shipped")} \cup
    {[id |-> <<"astro", "edited">>, chars |-> c, wide |-> 0,
      contains |-> S \cup l[1], lower_contains |-> l[2]] :
        c \in {TruncChars, AstroChars},
        S \in SUBSET {AstroRequired[i] : i \in 1..Len(AstroRequired)},
        l \in {<<{"label for=\""}, {"label for="}>>, <<{}, {"label for="}>>,
               <<{}, {}>>}}

\* stylesheet texts: empty or long, with any of the searched selectors
CssTexts ==
    {generate_css("shipped")} \cup
    {[id |-> <<"css", "edited">>, chars |-> c, wide |-> 0,
      contains |-> S, lower_contains |-> {}] :
        c \in {0, CssChars},
        S \in SUBSET {CssRequired[i] : i \in 1..Len(CssRequired)}}

\* @type values of a graph entry; "None" is an entry without @type
TypeNames == {"WebPage", "Service", "FAQPage", "None"}

Graphs == UNION {[1..n -> TypeNames] : n \in 0..MaxGraphLen}

Schemas ==
    {[context |-> c, graph |-> g] :
        c \in {"https://schema.org", "http://schema.org"}, g \in Graphs}

Shipped ==
    [astro |-> generate_astro_content("shipped"),
     schema |-> generate_schema("shipped"),
     css |-> generate_css("shipped"),
     readme |-> generate_readme(2)]

InitV ==
    /\ config \in ConfigsV
    /\ scenario = "shipped"
    /\ output = "named"
    /\ fs = [p \in Paths(config) |-> Absent]
    /\ out_exists = FALSE
    /\ backups = <<>>
    /\ clock = 3
    /\ run = 1
    /\ faults = 0
    /\ verdicts = [d \in BOOLEAN |-> {}]
    /\ \E d \in BOOLEAN : args = [NoArgs EXCEPT !.dry_run = d]
    /\ pc = "validate"
    /\ exc = "none"
    /\ exit_code = -1
    /\ \/ \E t \in AstroTexts : content = [Shipped EXCEPT !.astro = t]
       \/ \E t \in CssTexts : content = [Shipped EXCEPT !.css = t]
       \/ \E t \in Schemas : content = [Shipped EXCEPT !.schema = t]
    /\ manifest = [NoManifest EXCEPT !.generated_at = 1]
    /\ trace = <<"GENERATE">>
    /\ written = {}
    /\ touched = {}
    /\ snap = [fs |-> fs, out_exists |-> out_exists, backups |-> 0]
    /\ log = <<>>
    /\ builds = <<>>
    /\ zip_handle = "none"

NextV ==
    \/ Validate
    \/ Gate

SpecV == InitV /\ [][NextV]_vars

\* ---------------------------------------------------------------------------
\* Properties
\* ---------------------------------------------------------------------------
Range(seq) == {seq[i] : i \in 1..Len(seq)}

\* the validators of the current run have run
Validated == "astro" \in DOMAIN manifest.validation

\* build_package has returned its manifest to main
Returned == pc \in {"package", "summary"} \/ (pc = "exited" /\ exit_code = 0)

AllFiles == ArtifactNames \cup {"manifest"}

Validators == {"astro", "schema", "css"}

\* some check outcome of some report of the current run is a FAIL
AnyCheckFails ==
    /\ Validated
    /\ \E n \in Validators :
           \E i \in 1..Len(manifest.validation[n].checks) :
               manifest.validation[n].checks[i].status = "FAIL"

\* the three reports of the current run have passed = TRUE
AllReportsPass ==
    /\ Validated
    /\ \A n \in Validators : manifest.validation[n].passed

\* C1: when a check of one of the three validators fails, the build raises
\* ValidationError and the run has written no artifact file and no manifest
\* file under the output directory, with and without dry_run.
ValidationGate ==
    AnyCheckFails =>
        /\ written = {}
        /\ touched \cap OutPaths(config) = {}
        /\ pc \in {"gate", "raised", "exited"}
        /\ pc # "gate" => exc = "ValidationError"

\* a full run and a dry run that were aborted for the missing '.risk-grid'
ValidationGateWitness ==
    /\ pc = "exited"
    /\ exit_code = 1
    /\ scenario = "no_risk_grid"
    /\ Validated
    /\ ~manifest.validation["css"].passed
    /\ ~args.dry_run
    /\ \E v \in verdicts[TRUE] : v.raised

\* C2: every checksum recorded in the manifest is the SHA-256 digest of the
\* bytes in the file of that artifact, whatever the configured encoding.
ChecksumIntegrity ==
    \A n \in DOMAIN manifest.checksums :
        manifest.checksums[n] = SHA256(fs[manifest.artifacts[n]])

\* C3: a run ends with 0 exactly when nothing was raised, with 1 exactly when
\* ValidationError was raised and with 2 for every other exception.
ExitCodes ==
    pc = "exited" =>
        /\ exit_code = 0 <=> exc = "none"
        /\ exit_code = 1 <=> exc = "ValidationError"
        /\ exit_code = 2 <=> exc \notin {"none", "ValidationError"}

\* C4: with dry_run, build_package creates, modifies or removes nothing under
\* the output directory, and does not create the directory.
DryRunWritesNothing ==
    args.dry_run =>
        /\ touched \cap OutPaths(config) = {}
        /\ out_exists = snap.out_exists
        /\ \A p \in OutPaths(config) : fs[p] = snap.fs[p]

\* a dry run over an existing directory has returned, and one was aborted
DryRunWritesNothingWitness ==
    /\ args.dry_run
    /\ pc = "exited"
    /\ exit_code \in {0, 1}
    /\ Validated
    /\ fs[OldPath] = OldBytes

\* C5: with --dry-run, main creates no artifact file, no manifest file, no
\* archive and no backup copy, whatever --backup and --zip are.
DryRunSkipsAllWrites ==
    args.dry_run =>
        /\ touched \cap (OutPaths(config) \cup {ZipPath(output)}) = {}
        /\ Len(backups) = snap.backups

\* C6: a dry run and a full run with the same config and templates agree on
\* whether ValidationError is raised and on the three validation reports.
SameVerdict ==
    \A v \in verdicts[TRUE] : \A w \in verdicts[FALSE] : v = w

\* both a dry run and a full run have passed the gate with a failing report
SameVerdictWitness ==
    /\ \E v \in verdicts[TRUE] : v.raised
    /\ \E w \in verdicts[FALSE] : w.raised

\* C7: the stages of a run are entered in the order GENERATE, VALIDATE, then
\* ABORT or WRITE, then PACKAGE, none twice; WRITE only after all three
\* reports passed and PACKAGE only after all five files were written.
StageOrder ==
    /\ \/ \E k \in 0..4 :
            trace = SubSeq(<<"GENERATE", "VALIDATE", "WRITE", "PACKAGE">>, 1, k)
       \/ trace = <<"GENERATE", "VALIDATE", "ABORT">>
    /\ "WRITE" \in Range(trace) => AllReportsPass
    /\ "PACKAGE" \in Range(trace) => written = AllFiles

\* a run went through all four stages
StageOrderWitness ==
    /\ trace = <<"GENERATE", "VALIDATE", "WRITE", "PACKAGE">>
    /\ pc = "exited"

\* C8: the manifest a passing dry run returns has no artifact path and no
\* checksum, and holds the reports of astro, schema and css.
PreviewManifest ==
    (args.dry_run /\ Returned) =>
        /\ DOMAIN manifest.artifacts = {}
        /\ DOMAIN manifest.checksums = {}
        /\ DOMAIN manifest.validation = Validators

\* a dry run has returned its manifest
PreviewManifestWitness ==
    /\ args.dry_run
    /\ pc = "package"
    /\ AllReportsPass

\* C9: the archive is created or modified only in a run with --zip and
\* without --dry-run whose build passed validation and wrote all five files.
PackagingPrecondition ==
    ZipPath(output) \in touched =>
        /\ args.zip
        /\ ~args.dry_run
        /\ AllReportsPass
        /\ written = AllFiles

\* a run with --zip has made its archive and ended
PackagingPreconditionWitness ==
    /\ ZipPath(output) \in touched
    /\ pc = "exited"
    /\ exit_code = 0

\* C10: after create_zip the archive has exactly one entry per file of the
\* source tree, named by the file's path relative to the parent of the source
\* directory, with the file's bytes as content.
ArchiveContents ==
    (ZipPath(output) \in touched /\ Returned /\ pc # "package") =>
        LET entries == fs[ZipPath(output)].text[2]
            files == TreeFiles(fs, config)
        IN /\ Len(entries) = Cardinality(files)
           /\ \A p \in files :
                  \E i \in 1..Len(entries) :
                      /\ entries[i].name = ArcName(p, output)
                      /\ entries[i].data = fs[p]

\* C11: two full builds with the same config, each into a fresh output
\* directory, leave the same markup, stylesheet and schema bytes, READMEs
\* that differ only in the time stamp, and manifests that differ only in
\* generated_at (every checksum equal).
BuildIdempotence ==
    \A i \in 1..Len(builds) : \A j \in 1..Len(builds) :
        (i < j /\ builds[i].fresh /\ builds[j].fresh) =>
            /\ \A n \in {"astro", "css", "schema"} :
                   builds[i].files[n] = builds[j].files[n]
            /\ builds[i].files["readme"].enc = builds[j].files["readme"].enc
            /\ builds[i].files["readme"].text[1] = builds[j].files["readme"].text[1]
            /\ [builds[i].manifest EXCEPT !.generated_at = 0]
                   = [builds[j].manifest EXCEPT !.generated_at = 0]

\* the run has gone on after the backup step
BuildStarted == trace # <<>>

ManifestLast ==
    /\ ManifestPath \in touched =>
           /\ ArtifactNames \subseteq written
           /\ \A n \in ArtifactNames :
                  fs[ArtifactPath(n, config)] =
                      Encode(ArtifactText(n), config.encoding)
    /\ "manifest" \in written =>
           LET m == fs[ManifestPath].text[2]
           IN /\ DOMAIN m.artifacts = ArtifactNames
              /\ DOMAIN m.checksums = ArtifactNames

\* the manifest file has just been written
ManifestLastWitness ==
    /\ "manifest" \in written
    /\ pc = "package"

Files == <<"astro", "schema", "css", "readme", "manifest">>

FilePath(f) == IF f = "manifest" THEN ManifestPath ELSE ArtifactPath(f, config)

\* a safe_write of the current run has raised
WriteFailed ==
    /\ exc = "OSError"
    /\ "WRITE" \in Range(trace)
    /\ "PACKAGE" \notin Range(trace)

\* C14: when the write of the k-th file fails, one error record names its
\* path, the files before it are written and in place, no later file is
\* touched, the manifest is not written, and main exits with 2.
WriteFailure ==
    WriteFailed =>
        /\ pc \in {"raised", "exited"}
        /\ pc = "exited" => exit_code = 2
        /\ "manifest" \notin written
        /\ \E k \in 1..Len(Files) :
               /\ written = {Files[i] : i \in 1..(k - 1)}
               /\ Cardinality({i \in 1..Len(log) : log[i].level = "ERROR"
                      /\ log[i].text = "OS error writing " \o PathStr(FilePath(Files[k]))}) = 1
               /\ Cardinality({i \in 1..Len(log) : log[i].level = "ERROR"}) =
                      IF pc = "exited" THEN 2 ELSE 1
               /\ \A i \in (k + 1)..Len(Files) : FilePath(Files[i]) \notin touched
               /\ \A i \in 1..(k - 1) :
                      fs[FilePath(Files[i])] =
                          Encode(ArtifactText(Files[i]), config.encoding)

\* the write of the stylesheet failed and the run has ended
WriteFailureWitness ==
    /\ WriteFailed
    /\ pc = "exited"
    /\ written = {"astro", "schema"}

\* C15: each report's passed flag is TRUE exactly when none of its check
\* outcomes is a FAIL, and build_package goes on past the validation gate
\* exactly when the three reports have passed = TRUE.
AggregationRule ==
    Validated =>
        /\ \A n \in Validators :
               manifest.validation[n].passed <=>
                   \A i \in 1..Len(manifest.validation[n].checks) :
                       manifest.validation[n].checks[i].status # "FAIL"
        /\ pc \notin {"validate", "gate"} =>
               /\ AllReportsPass <=> pc \in {"package", "write_astro"}
               /\ ~AllReportsPass <=> (pc = "raised" /\ exc = "ValidationError")

\* the stylesheet is too small but has every selector, and the gate has raised
AggregationRuleWitness ==
    /\ Validated
    /\ pc = "raised"
    /\ manifest.validation["css"].checks[1].status = "FAIL"
    /\ \A i \in 2..Len(manifest.validation["css"].checks) :
           manifest.validation["css"].checks[i].status = "PASS"
    /\ manifest.validation["astro"].passed
    /\ manifest.validation["schema"].passed

Label(n) ==
    CASE n = "astro" -> "Astro" [] n = "schema" -> "Schema" [] n = "css" -> "CSS"

\* C16: when the run exits with code 1, the three validators have run and
\* every check outcome of every report is a record of the log; with markup
\* under the size threshold one of the records is the size failure.
FailureReporting ==
    (pc = "exited" /\ exit_code = 1) =>
        /\ Validated
        /\ DOMAIN manifest.validation = Validators
        /\ \A n \in Validators :
               \A i \in 1..Len(manifest.validation[n].checks) :
                   \E k \in 1..Len(log) :
                       log[k].text = "  " \o Label(n) \o ": "
                                        \o Render(manifest.validation[n].checks[i])

\* the graph with entries i and i + 1 exchanged
Swap(g, i) ==
    [k \in 1..Len(g) |-> IF k = i THEN g[i + 1] ELSE IF k = i + 1 THEN g[i] ELSE g[k]]

\* the graph with a second copy of entry i at the end
Dup(g, i) == Append(g, g[i])

\* C17: validate_schema passes exactly when @context is "https://schema.org"
\* and every required type is among the @type values of the graph entries;
\* exchanging two neighbouring entries or repeating an entry changes neither
\* the passed flag nor the check outcomes.
SchemaSetComparison ==
    Validated =>
        LET s == content.schema
            r == manifest.validation["schema"]
            req == config.required_schema_types
        IN /\ r.passed <=>
                  /\ s.context = "https://schema.org"
                  /\ \A i \in 1..Len(req) : req[i] \in Range(s.graph)
           /\ \A i \in 1..(Len(s.graph) - 1) :
                  validate_schema([s EXCEPT !.graph = Swap(s.graph, i)], config) = r
           /\ \A i \in 1..Len(s.graph) :
                  validate_schema([s EXCEPT !.graph = Dup(s.graph, i)], config) = r

\* a graph with the required types out of order and one of them twice passes
SchemaSetComparisonWitness ==
    /\ Validated
    /\ content.schema.graph = <<"FAQPage", "Service", "WebPage", "Service">>
    /\ manifest.validation["schema"].passed

\* the size check of a report: its first check outcome
SizeCheck(n) == manifest.validation[n].checks[1]

HandleReleased ==
    /\ zip_handle = "open" => pc = "zip_walk"
    /\ (ZipPath(output) \in touched /\ pc # "zip_walk") => zip_handle = "closed"

\* adding an entry has raised and create_zip has been left
HandleReleasedWitness ==
    /\ ZipPath(output) \in touched
    /\ pc = "raised"
    /\ exc = "OSError"
    /\ zip_handle = "closed"

\* C20: a name is in manifest.checksums only if it is in manifest.artifacts,
\* and in manifest.artifacts only if its file was written in this run; when
\* a full build has returned both maps have the four artifact names.
ManifestEntries ==
    /\ DOMAIN manifest.checksums \subseteq DOMAIN manifest.artifacts
    /\ DOMAIN manifest.artifacts \subseteq written
    /\ \A n \in DOMAIN manifest.artifacts :
           fs[ArtifactPath(n, config)] = Encode(ArtifactText(n), config.encoding)
    /\ "manifest" \in written =>
           /\ DOMAIN manifest.artifacts = ArtifactNames
           /\ DOMAIN manifest.checksums = ArtifactNames

\* the stylesheet's path is recorded and its checksum is not yet
ManifestEntriesWitness ==
    /\ pc = "sum_css"
    /\ DOMAIN manifest.artifacts = {"astro", "schema", "css"}
    /\ DOMAIN manifest.checksums = {"astro", "schema"}

\* the five paths named by the frame of the writer
WriterPaths ==
    {<<"out", "src/pages/" \o config.page_slug \o ".astro">>,
     <<"out", "public/schema-audit.json">>,
     <<"out", "styles/audit-styles.css">>,
     <<"out", "docs/readme.md">>,
     <<"out", "build-manifest.json">>}

\* create_zip of the current run has returned
Archived ==
    /\ ZipPath(output) \in touched
    /\ pc \in {"summary", "exited"}
    /\ exc = "none"

\* C21: up to the end of build_package a run touches only the five fixed
\* paths under the output directory, a full build all five; every other
\* file under the output directory is as it was when the run started, and
\* if it existed then, the archive has an entry for it.
WriterFrame ==
    /\ "PACKAGE" \notin Range(trace) =>
           (touched \cap OutPaths(config)) \subseteq WriterPaths
    /\ "manifest" \in written => WriterPaths \subseteq touched
    /\ \A p \in OutPaths(config) \ WriterPaths :
           (p # ZipPath(output) \/ "PACKAGE" \notin Range(trace)) =>
               /\ p \notin touched
               /\ fs[p] = snap.fs[p]
    /\ Archived =>
           LET entries == fs[ZipPath(output)].text[2]
           IN \A p \in OutPaths(config) \ WriterPaths :
                  snap.fs[p] # Absent =>
                      \E i \in 1..Len(entries) :
                          /\ entries[i].name = ArcName(p, output)
                          /\ p # ZipPath(output) => entries[i].data = snap.fs[p]

\* a full build over a directory that held an unrelated file was archived
WriterFrameWitness ==
    /\ output = "named"
    /\ snap.fs[OldPath] = OldBytes
    /\ "manifest" \in written
    /\ Archived
    /\ fs[OldPath] = OldBytes
    /\ \E i \in 1..Len(fs[ZipPath(output)].text[2]) :
           fs[ZipPath(output)].text[2][i].data = OldBytes

\* C22: the archive file main asks create_zip to write is not under the
\* output directory, and no entry of the archive is the archive itself.
ArchiveOutsideTree ==
    /\ "PACKAGE" \in Range(trace) => ZipPath(output) \notin OutPaths(config)
    /\ (ZipPath(output) \in touched /\ fs[ZipPath(output)].enc = "zip") =>
           LET entries == fs[ZipPath(output)].text[2]
           IN \A i \in 1..Len(entries) :
                  entries[i].name # ArcName(ZipPath(output), output)

====
